---- MODULE Spec2Model ----
(***************************************************************************)
(* Apriori in Rust (src/src/lib.rs): ingestion of CSV records, the         *)
(* degree-1 tally, the level-wise build loop and rule generation.          *)
(*                                                                         *)
(* Item labels (Rust Strings) are the integers 0..NumItems: 0 is the empty *)
(* string "", and < on the integers is the lexicographic order of the      *)
(* labels ("" sorts first).                                                *)
(*                                                                         *)
(* min_sup and min_conf are f64 in the code.  They are drawn from dyadic   *)
(* rationals <<num, den>>, which f64 represents exactly, so that           *)
(* n as f64 * min_sup and the comparisons with a quotient of two small     *)
(* counts come out in f64 as they do in exact arithmetic.                  *)
(***************************************************************************)
EXTENDS Integers, Sequences, FiniteSets, TLC

\* Bounds of the model.
MaxTxn == 2
MaxLen == 3
NumItems == 3

Blank == 0
Items == 1..NumItems
Fields == {Blank} \cup Items

\* csv::Reader is not flexible: every record of a file has the same number of
\* fields, shorter baskets being padded with empty fields.
RawRecords == [1..MaxLen -> Fields]

\* min_sup: 0.25, 0.5 and 1.25 (above 1, as the 1.1 of the degenerate case:
\* floor(n * 1.25) = floor(n * 1.1) = n for every n < 4).
MinSups == {<<1, 4>>, <<1, 2>>, <<5, 4>>}
\* min_conf: 0.5 and 1.0.
MinConfs == {<<1, 2>>, <<1, 1>>}

VARIABLES min_sup, min_conf, txn_set, fre_sets, association_rules_set,
          degree, len_of_f, pc, run, prev

vars == <<min_sup, min_conf, txn_set, fre_sets, association_rules_set,
          degree, len_of_f, pc, run, prev>>

----------------------------------------------------------------------------
(* Helpers *)

Range(s) == {s[k] : k \in 1..Len(s)}

\* All iteration orders of a hash map with key set S.
Orders(S) ==
    {s \in [1..Cardinality(S) -> S] : \A a, b \in 1..Cardinality(S) : s[a] = s[b] => a = b}

----------------------------------------------------------------------------
(* create_sorted_txn_set *)

RECURSIVE Insert(_, _)
Insert(x, s) ==
    IF s = <<>> THEN <<x>>
    ELSE IF x < Head(s) THEN <<x>> \o s
    ELSE <<Head(s)>> \o Insert(x, Tail(s))

\* items_vec.sort()
RECURSIVE Sort(_)
Sort(s) == IF s = <<>> THEN <<>> ELSE Insert(s[Len(s)], Sort(SubSeq(s, 1, Len(s) - 1)))

\* items.iter().filter(|x| !x.is_empty())
NonEmptyFields(rec) == SelectSeq(rec, LAMBDA x : x # Blank)

\* One iteration of the loop over reader.records(): the Txn pushed for record rec.
MakeTxn(i, rec) == [id |-> i, items |-> Sort(NonEmptyFields(rec))]

----------------------------------------------------------------------------
(* init_fre_set *)

\* (txn_set.len() as f64 * min_sup) as usize
MinCount(n, ms) == (n * ms[1]) \div ms[2]

\* How many times item x is met walking txn.items.
Occurrences(items, x) == Cardinality({p \in 1..Len(items) : items[p] = x})

RECURSIVE Tally(_, _, _)
Tally(txns, k, x) ==
    IF k = 0 THEN 0 ELSE Tally(txns, k - 1, x) + Occurrences(txns[k].items, x)

\* entry(item).and_modify(|x| *x += 1).or_insert(1)
EntryCount(txns, x) == Tally(txns, Len(txns), x)

create_candicate_set_1(txns) ==
    [x \in {y \in Items : \E k \in 1..Len(txns) : y \in Range(txns[k].items)}
        |-> EntryCount(txns, x)]

\* Mutant: the degree-1 filter with >= in place of >.
create_frequent_set_1_ge(candicate_set_1, min_count) ==
    [x \in {y \in DOMAIN candicate_set_1 : candicate_set_1[y] >= min_count}
        |-> candicate_set_1[x]]

create_frequent_set_1(candicate_set_1, min_count) ==
    [x \in {y \in DOMAIN candicate_set_1 : candicate_set_1[y] > min_count}
        |-> candicate_set_1[x]]

----------------------------------------------------------------------------
(* generate_all_fre_sets *)

\* Mutant: the level counted is the next one.
len_of_f_degree_next(fs, d) == Len(SelectSeq(fs, LAMBDA x : x.degree = d + 1))

len_of_f_degree(fs, d) == Len(SelectSeq(fs, LAMBDA x : x.degree = d))

get_degree_fre_sets(fs, d) == SelectSeq(fs, LAMBDA x : x.degree = d)

subset_of(subset, set) ==
    \A k \in 1..Len(subset) : \E p \in 1..Len(set) : set[p] = subset[k]

\* The join condition of get_candi_from_f on the pair (a, b) of degree d.
Joinable(a, b, d) ==
    /\ SubSeq(a.items, 1, d - 1) = SubSeq(b.items, 1, d - 1)
    /\ a.items[d] # b.items[d]

\* Mutant: the item appended is j's first, get(0), not its last.
NewCandiFirst(a, b, d) ==
    [degree |-> d + 1, items |-> Append(a.items, b.items[1]), count |-> 0]

NewCandi(a, b, d) == [degree |-> d + 1, items |-> Append(a.items, b.items[d]), count |-> 0]

\* for i in 0..(len - 1) { for j in i+1..len { ... } }, with 1-based i and j.
RECURSIVE CandiLoop(_, _, _, _)
CandiLoop(L, d, i, j) ==
    IF i > Len(L) - 1 THEN <<>>
    ELSE IF j > Len(L) THEN CandiLoop(L, d, i + 1, i + 2)
    ELSE (IF Joinable(L[i], L[j], d) THEN <<NewCandi(L[i], L[j], d)>> ELSE <<>>)
         \o CandiLoop(L, d, i, j + 1)

get_candi_from_f(fs, d) == CandiLoop(get_degree_fre_sets(fs, d), d, 1, 2)

\* The scan of txn_set for one candidate.
Counted(candi_set, txns) ==
    [candi_set EXCEPT !.count =
        Cardinality({t \in 1..Len(txns) : subset_of(candi_set.items, txns[t].items)})]

Promoted(candi_set, min_count) == candi_set.count >= min_count

\* The frequent sets pushed by one pass over candi_sets.
RECURSIVE PushPromoted(_, _, _, _)
PushPromoted(candi_sets, k, txns, min_count) ==
    IF k > Len(candi_sets) THEN <<>>
    ELSE LET c == Counted(candi_sets[k], txns)
         IN (IF Promoted(c, min_count) THEN <<c>> ELSE <<>>)
            \o PushPromoted(candi_sets, k + 1, txns, min_count)

----------------------------------------------------------------------------
(* generate_association_rules *)

\* Mutant: an inclusive range, 1..=(2^degree - 1).
MasksInclusive(d) == 1..(2^d - 1)

\* for mut i in 1..(2^degree - 1)
Masks(d) == 1..(2^d - 2)

\* while i != 0 { if i&1 == 1 { from.push(items[pos]) } pos += 1; i >>= 1 }
RECURSIVE FromOfMask(_, _, _)
FromOfMask(items, i, pos) ==
    IF i = 0 THEN <<>>
    ELSE (IF i % 2 = 1 THEN <<items[pos]>> ELSE <<>>) \o FromOfMask(items, i \div 2, pos + 1)

ToOfFrom(items, from) == SelectSeq(items, LAMBDA x : x \notin Range(from))

\* fre_sets.iter().find(|&x| x.items.eq(&from)): the index found, 0 for None.
FindFrom(fs, from) ==
    IF \E k \in 1..Len(fs) : fs[k].items = from
    THEN CHOOSE k \in 1..Len(fs) :
            /\ fs[k].items = from
            /\ \A m \in 1..(k - 1) : fs[m].items # from
    ELSE 0

\* Mutant: the quotient taken the other way round.
ConfSwapped(fre_set, from_fre_set) == <<from_fre_set.count, fre_set.count>>

\* conf, the f64 quotient count / count, as <<numerator, denominator>>.
Conf(fre_set, from_fre_set) == <<fre_set.count, from_fre_set.count>>

\* conf >= min_conf in f64: x/0 is +inf for x > 0, and 0/0 is NaN, which
\* compares false.
ConfGe(conf, mc) ==
    IF conf[2] = 0 THEN conf[1] # 0
    ELSE conf[1] * mc[2] >= mc[1] * conf[2]

NewRule(fre_set, from, from_fre_set, txn_num) ==
    [from |-> from,
     to   |-> ToOfFrom(fre_set.items, from),
     sup  |-> <<fre_set.count, txn_num>>,
     conf |-> Conf(fre_set, from_fre_set)]

\* The rules pushed for fre_set by the masks i, i+1, ...
RECURSIVE MaskLoop(_, _, _, _, _)
MaskLoop(fs, fre_set, i, mc, txn_num) ==
    IF i \notin Masks(fre_set.degree) THEN <<>>
    ELSE LET from == FromOfMask(fre_set.items, i, 1)
             k    == FindFrom(fs, from)
         IN IF k = 0 THEN <<>>
            ELSE (IF ConfGe(Conf(fre_set, fs[k]), mc)
                  THEN <<NewRule(fre_set, from, fs[k], txn_num)>>
                  ELSE <<>>)
                 \o MaskLoop(fs, fre_set, i + 1, mc, txn_num)

RECURSIVE RulesLoop(_, _, _, _)
RulesLoop(fs, k, mc, txn_num) ==
    IF k > Len(fs) THEN <<>>
    ELSE (IF fs[k].degree = 1 THEN <<>> ELSE MaskLoop(fs, fs[k], 1, mc, txn_num))
         \o RulesLoop(fs, k + 1, mc, txn_num)

\* Some find(...).unwrap() of the loop is called on None.
UnwrapFails(fs) ==
    \E k \in 1..Len(fs) :
        /\ fs[k].degree # 1
        /\ \E i \in Masks(fs[k].degree) : FindFrom(fs, FromOfMask(fs[k].items, i, 1)) = 0

----------------------------------------------------------------------------
(* The pipeline of apriori() *)

Init ==
    /\ min_sup \in MinSups
    /\ min_conf \in MinConfs
    /\ txn_set = <<>>
    /\ fre_sets = <<>>
    /\ association_rules_set = <<>>
    /\ degree = 0
    /\ len_of_f = 0
    /\ pc = "read"
    /\ run = 1
    /\ prev = [fre_sets |-> <<>>, rules |-> <<>>]

\* create_sorted_txn_set: one record of the file.
ReadRecord ==
    /\ pc = "read"
    /\ Len(txn_set) < MaxTxn
    /\ \E rec \in RawRecords : txn_set' = Append(txn_set, MakeTxn(Len(txn_set), rec))
    /\ UNCHANGED <<min_sup, min_conf, fre_sets, association_rules_set,
                   degree, len_of_f, pc, run, prev>>

\* create_sorted_txn_set: the records are exhausted, txn_set is returned.
EndOfFile ==
    /\ pc = "read"
    /\ pc' = "init"
    /\ UNCHANGED <<min_sup, min_conf, txn_set, fre_sets, association_rules_set,
                   degree, len_of_f, run, prev>>

\* init_fre_set, and generate_all_fre_sets up to its loop.  frequent_set_1 is
\* a HashMap: its iteration order is any order of its keys.
InitFreSet ==
    /\ pc = "init"
    /\ LET candicate_set_1 == create_candicate_set_1(txn_set)
           min_count       == MinCount(Len(txn_set), min_sup)
           frequent_set_1  == create_frequent_set_1(candicate_set_1, min_count)
       IN \E order \in Orders(DOMAIN frequent_set_1) :
            fre_sets' = fre_sets \o
                [k \in 1..Len(order) |->
                    [degree |-> 1, items |-> <<order[k]>>, count |-> frequent_set_1[order[k]]]]
    /\ degree' = 1
    /\ len_of_f' = len_of_f_degree(fre_sets', 1)
    /\ pc' = "grow"
    /\ UNCHANGED <<min_sup, min_conf, txn_set, association_rules_set, run, prev>>

\* One iteration of while len_of_f > 0.  get_candi_from_f computes len - 1 in
\* usize, which overflows on an empty level.
GrowLevel ==
    /\ pc = "grow"
    /\ len_of_f > 0
    /\ IF Len(get_degree_fre_sets(fre_sets, degree)) = 0
       THEN /\ pc' = "panic"
            /\ UNCHANGED <<fre_sets, degree, len_of_f>>
       ELSE /\ fre_sets' = fre_sets \o
                    PushPromoted(get_candi_from_f(fre_sets, degree), 1, txn_set,
                                 MinCount(Len(txn_set), min_sup))
            /\ degree' = degree + 1
            /\ len_of_f' = len_of_f_degree(fre_sets', degree')
            /\ pc' = "grow"
    /\ UNCHANGED <<min_sup, min_conf, txn_set, association_rules_set, run, prev>>

\* The loop condition fails: generate_all_fre_sets returns.
BuildDone ==
    /\ pc = "grow"
    /\ ~(len_of_f > 0)
    /\ pc' = "rules"
    /\ UNCHANGED <<min_sup, min_conf, txn_set, fre_sets, association_rules_set,
                   degree, len_of_f, run, prev>>

\* generate_association_rules, and the return of apriori.
GenerateRules ==
    /\ pc = "rules"
    /\ IF UnwrapFails(fre_sets)
       THEN /\ pc' = "panic"
            /\ UNCHANGED association_rules_set
       ELSE /\ association_rules_set' =
                    association_rules_set \o RulesLoop(fre_sets, 1, min_conf, Len(txn_set))
            /\ pc' = "done"
    /\ UNCHANGED <<min_sup, min_conf, txn_set, fre_sets, degree, len_of_f, run, prev>>

\* A second call of apriori with the same min_sup, min_conf and file: the
\* same records are read, and MakeTxn is a function of the record, so txn_set
\* is the same; fre_sets and association_rules_set are new empty Vecs.
Rerun ==
    /\ pc = "done"
    /\ run = 1
    /\ prev' = [fre_sets |-> fre_sets, rules |-> association_rules_set]
    /\ run' = 2
    /\ fre_sets' = <<>>
    /\ association_rules_set' = <<>>
    /\ degree' = 0
    /\ len_of_f' = 0
    /\ pc' = "init"
    /\ UNCHANGED <<min_sup, min_conf, txn_set>>

Next ==
    \/ ReadRecord
    \/ EndOfFile
    \/ InitFreSet
    \/ GrowLevel
    \/ BuildDone
    \/ GenerateRules

Spec == Init /\ [][Next]_vars

\* The computation is single-threaded and never waits: it runs to its end.
FairSpec == Spec /\ WF_vars(Next)

NextTwice == Next \/ Rerun

SpecTwice == Init /\ [][NextTwice]_vars

----------------------------------------------------------------------------
(* Properties *)

Built == pc \in {"rules", "done"}

\* The number of transactions that contain every item of the set S.
TxnCount(S) ==
    Cardinality({t \in 1..Len(txn_set) : S \subseteq Range(txn_set[t].items)})

\* floor(n * min_sup), from its definition.
FloorNSup ==
    CHOOSE m \in 0..(Len(txn_set) * min_sup[1]) :
        /\ m * min_sup[2] <= Len(txn_set) * min_sup[1]
        /\ Len(txn_set) * min_sup[1] < (m + 1) * min_sup[2]

NumOfDegree(d) == Cardinality({k \in 1..Len(fre_sets) : fre_sets[k].degree = d})

StrictlySorted(s) == \A a, b \in 1..Len(s) : a < b => s[a] < s[b]

IsPrefix(s, t) == Len(s) <= Len(t) /\ SubSeq(t, 1, Len(s)) = s

\* The items of the sequence s that are in the set X, in the order of s.
Keep(s, X) == SelectSeq(s, LAMBDA x : x \in X)

ProperSplits(F) == (SUBSET Range(F.items)) \ {{}, Range(F.items)}

\* C1: when mining is over, an itemset is in the frequent collection if and
\* only if (number of transactions containing all its items) / n >= min_sup.
C1_FrequentIffSupport ==
    (Built /\ Len(txn_set) >= 1) =>
        \A S \in (SUBSET Items) \ {{}} :
            (\E k \in 1..Len(fre_sets) : Range(fre_sets[k].items) = S)
                <=> (TxnCount(S) * min_sup[2] >= min_sup[1] * Len(txn_set))

\* C2: when mining is over, every itemset of degree >= 2 has
\* count >= floor(n * min_sup) and every itemset of degree 1 has
\* count > floor(n * min_sup).
C2_ThresholdCorrectness ==
    Built =>
        \A k \in 1..Len(fre_sets) :
            /\ fre_sets[k].degree >= 2 => fre_sets[k].count >= FloorNSup
            /\ fre_sets[k].degree = 1 => fre_sets[k].count > FloorNSup

\* Mining is over with floor(n * min_sup) >= 1, a degree-1 itemset, and an
\* itemset of degree >= 2 whose count is exactly the threshold.
C2_Witness ==
    /\ pc = "done"
    /\ FloorNSup >= 1
    /\ \E k, m \in 1..Len(fre_sets) :
        /\ fre_sets[k].degree = 1
        /\ fre_sets[m].degree >= 2
        /\ fre_sets[m].count = FloorNSup

\* C3: every non-empty proper subset of the items of a frequent itemset of
\* degree k >= 2, kept in the itemset's order, is the item sequence of an
\* itemset of the collection, of the degree of its size (so every
\* (k-1)-subset is there at degree k-1), and no antecedent lookup of rule
\* generation fails.
C3_AntiMonotone ==
    /\ pc # "panic"
    /\ \A k \in 1..Len(fre_sets) :
        fre_sets[k].degree >= 2 =>
            /\ Len(fre_sets[k].items) = fre_sets[k].degree
            /\ \A X \in ProperSplits(fre_sets[k]) :
                \E m \in 1..Len(fre_sets) :
                    /\ fre_sets[m].items = Keep(fre_sets[k].items, X)
                    /\ fre_sets[m].degree = Cardinality(X)
            /\ \A X \in SUBSET (1..fre_sets[k].degree) :
                (X # {} /\ X # 1..fre_sets[k].degree) =>
                    \E m \in 1..Len(fre_sets) :
                        /\ Len(fre_sets[m].items) = Cardinality(X)
                        /\ \A p \in 1..Cardinality(X) :
                            \E q \in X :
                                /\ Cardinality({r \in X : r < q}) = p - 1
                                /\ fre_sets[m].items[p] = fre_sets[k].items[q]

\* Rule generation has run over a collection with an itemset of degree 3
\* that passed a threshold floor(n * min_sup) >= 1.
C3_Witness ==
    /\ pc = "done"
    /\ FloorNSup >= 1
    /\ \E k \in 1..Len(fre_sets) : fre_sets[k].degree = 3

\* C4: every emitted rule has confidence F.count / antecedent.count with a
\* nonzero antecedent count that is at least F.count (0 <= confidence <= 1),
\* and confidence >= min_conf.
C4_ConfidenceBound ==
    \A j \in 1..Len(association_rules_set) :
        LET r == association_rules_set[j]
        IN /\ r.conf[2] # 0
           /\ 0 <= r.conf[1]
           /\ r.conf[1] <= r.conf[2]
           /\ r.conf[1] * min_conf[2] >= min_conf[1] * r.conf[2]
           /\ \E k, m \in 1..Len(fre_sets) :
                /\ Range(fre_sets[k].items) = Range(r.from) \cup Range(r.to)
                /\ fre_sets[m].items = r.from
                /\ r.conf = <<fre_sets[k].count, fre_sets[m].count>>

\* Rules were emitted, one of confidence 1 and one of confidence below 1.
C4_Witness ==
    /\ pc = "done"
    /\ \E i, j \in 1..Len(association_rules_set) :
        /\ association_rules_set[i].conf[1] = association_rules_set[i].conf[2]
        /\ association_rules_set[j].conf[1] < association_rules_set[j].conf[2]

\* C5: two runs of the pipeline on the same transactions, min_sup and
\* min_conf return the same frequent itemsets and the same rules, in the
\* same order.
C5_Idempotent ==
    (run = 2 /\ pc = "done") =>
        /\ fre_sets = prev.fre_sets
        /\ association_rules_set = prev.rules

RulesFor(from, to) ==
    {j \in 1..Len(association_rules_set) :
        association_rules_set[j].from = from /\ association_rules_set[j].to = to}

\* F.count / G.count >= min_conf.
Qualifies(F, G) == G.count > 0 /\ F.count * min_conf[2] >= min_conf[1] * G.count

\* C6: the emitted rules are exactly the qualifying splits: every rule splits
\* the items of a frequent itemset of degree >= 2 into a non-empty antecedent
\* and a non-empty consequent, disjoint, each in the itemset's order; and for
\* every such itemset F and non-empty proper subset X of its items, exactly
\* one rule X --> rest is emitted when F.count / count(X) >= min_conf, and
\* none otherwise.
C6_RulesAreQualifyingSplits ==
    pc = "done" =>
        /\ \A j \in 1..Len(association_rules_set) :
            LET r == association_rules_set[j]
            IN /\ r.from # <<>>
               /\ r.to # <<>>
               /\ Range(r.from) \cap Range(r.to) = {}
               /\ \E k \in 1..Len(fre_sets) :
                    /\ fre_sets[k].degree >= 2
                    /\ Range(fre_sets[k].items) = Range(r.from) \cup Range(r.to)
                    /\ r.from = Keep(fre_sets[k].items, Range(r.from))
                    /\ r.to = Keep(fre_sets[k].items, Range(r.to))
        /\ \A k \in 1..Len(fre_sets) :
            fre_sets[k].degree >= 2 =>
                \A X \in ProperSplits(fre_sets[k]) :
                    LET F    == fre_sets[k]
                        from == Keep(F.items, X)
                        to   == Keep(F.items, Range(F.items) \ X)
                    IN \E m \in 1..Len(fre_sets) :
                        /\ fre_sets[m].items = from
                        /\ Cardinality(RulesFor(from, to))
                             = IF Qualifies(F, fre_sets[m]) THEN 1 ELSE 0

\* Rules were generated from a collection with an itemset of degree 3, some
\* splits qualifying (one with a two-item antecedent) and some not.
C6_Witness ==
    /\ pc = "done"
    /\ \E j \in 1..Len(association_rules_set) : Len(association_rules_set[j].from) = 2
    /\ \E k, m \in 1..Len(fre_sets) :
        /\ fre_sets[k].degree = 3
        /\ Range(fre_sets[m].items) \in ProperSplits(fre_sets[k])
        /\ ~Qualifies(fre_sets[k], fre_sets[m])

\* C7: every transaction produced by ingestion has no blank entry, no
\* duplicate item and lexicographically sorted items, and so the degree-1
\* tally of an item is the number of transactions that contain it.
C7_NormalizedTxn ==
    /\ \A t \in 1..Len(txn_set) :
        /\ Blank \notin Range(txn_set[t].items)
        /\ StrictlySorted(txn_set[t].items)
    /\ \A k \in 1..Len(fre_sets) :
        fre_sets[k].degree = 1 => fre_sets[k].count = TxnCount(Range(fre_sets[k].items))

\* C8: degenerate thresholds are not errors: mining never panics, and with
\* min_sup above 1 it ends with an empty frequent collection and an empty
\* rule collection.
C8_DegenerateThresholds ==
    /\ pc # "panic"
    /\ (pc = "done" /\ min_sup[1] > min_sup[2]) =>
        /\ fre_sets = <<>>
        /\ association_rules_set = <<>>

\* C9: every itemset of the collection has degree = length(items) and
\* distinct items in lexicographic order, and no two itemsets of one degree
\* have the same item sequence.
C9_ItemSetInvariant ==
    /\ \A k \in 1..Len(fre_sets) :
        /\ fre_sets[k].degree = Len(fre_sets[k].items)
        /\ StrictlySorted(fre_sets[k].items)
    /\ \A k, m \in 1..Len(fre_sets) :
        (fre_sets[k].degree = fre_sets[m].degree /\ fre_sets[k].items = fre_sets[m].items)
            => k = m

PcOrder ==
    {<<"read", "init">>, <<"init", "grow">>, <<"grow", "rules">>, <<"rules", "done">>}

\* A step of the build: the collection is extended, never changed; it is
\* extended only while the level of the current degree is not empty, and
\* only by itemsets of the next degree.
BuildStep ==
    /\ IsPrefix(fre_sets, fre_sets')
    /\ pc' # pc => <<pc, pc'>> \in PcOrder
    /\ (pc = "grow" /\ pc' = "grow") =>
        /\ NumOfDegree(degree) > 0
        /\ degree' = degree + 1
        /\ \A k \in (Len(fre_sets) + 1)..Len(fre_sets') : fre_sets'[k].degree = degree'

\* The loop is left at the first empty level.
ExitAtFirstEmptyLevel ==
    Built =>
        /\ NumOfDegree(degree) = 0
        /\ \A d \in 1..(degree - 1) : NumOfDegree(d) > 0
        /\ \A k \in 1..Len(fre_sets) : fre_sets[k].degree < degree

\* C10: the build goes Degree1Init -> GrowLevel -> Terminated and always
\* terminates; it ends the first time a level promotes nothing, and until
\* then the collection only grows.
C10_BuildTerminates ==
    /\ (pc = "init") ~> (pc = "rules")
    /\ [][BuildStep]_vars
    /\ []ExitAtFirstEmptyLevel

\* The loop ended at degree NumItems + 1 with floor(n * min_sup) = 0, where
\* every candidate is promoted.
C10_Witness ==
    /\ pc = "rules"
    /\ FloorNSup = 0
    /\ degree = NumItems + 1
    /\ NumOfDegree(NumItems) = 1

====
